---- MODULE Spec2Model ----
(***************************************************************************)
(* Model of pyriemann/estimation.py: the four trial-to-covariance          *)
(* transformers Covariances, ERPCovariances, XdawnCovariances and          *)
(* CospCovariances, and the helper _nextpow2.                              *)
(*                                                                         *)
(* A behaviour follows ONE transformer instance (kind) through its         *)
(* construction and an arbitrary sequence of fit / transform /             *)
(* fit_transform calls.  Every method is one atomic action: the program is *)
(* synchronous and single threaded.  A method is an operator that maps     *)
(* (instance, arguments) to a result record                                *)
(*     [self |-> instance after the call, ret |-> what is returned,        *)
(*      out |-> the returned batch, raised |-> exception name or ""]       *)
(*                                                                         *)
(* Numeric data.  A matrix is a sequence of rows (axis 0 of the numpy      *)
(* array).  A row stands for one channel's samples and is a record         *)
(*     [tag, a, b, src]                                                    *)
(*   "x"     a raw sample row with value a                                 *)
(*   "mean"  the mean a / b in lowest terms (b = 0: NaN, no row averaged)  *)
(*   "svd"   row a of U[:, 0:k].T . P for the matrix P = src               *)
(*   "filt"  row a of a spatially filtered trial, src = <<trial, fit id>>  *)
(*   "evk"   evoked-response row b of class a, src = fit id                *)
(*                                                                         *)
(* call is the last call made (its arguments and outcome); lastfit holds   *)
(* the arguments of the ERPCovariances.fit that built the stored prototype *)
(* set (none when the last fit raised).                                    *)
(* The results of the numeric primitives (covariance estimate, SVD,        *)
(* cospectrum) are kept as terms that record their arguments.              *)
(***************************************************************************)
EXTENDS Integers, Sequences, FiniteSets, TLC

VARIABLES kind, nch, self, call, lastfit, pw

vars == <<kind, nch, self, call, lastfit, pw>>

---------------------------------------------------------------------------
(* Bounds of the model *)

MaxChannels == 2
MaxTrials == 2
MaxWindow == 130

MaxRank == MaxChannels + 1
MinRank == 0 - 1

Labels == {0, 1}
SampleValues == {0, 1}
Estimators == {"scm", "lwf"}

---------------------------------------------------------------------------
(* Python values *)

PyNone == [type |-> "NoneType", val |-> 0]
PyInt(v) == [type |-> "int", val |-> v]
PyBool(v) == [type |-> "bool", val |-> v]
PyFloat(v) == [type |-> "float", val |-> v]
PyStr(v) == [type |-> "str", val |-> v]

(* isinstance(v, int): bool is a subclass of int *)
IsInstanceInt(v) == v.type \in {"int", "bool"}

NoClasses == [type |-> "NoneType", val |-> <<>>]
ClassList(l) == [type |-> "list", val |-> l]

(* len(range(L)[0:stop]) : the number of items the slice 0:stop keeps *)
SliceLen(L, stop) ==
    IF stop < 0 THEN (IF L + stop > 0 THEN L + stop ELSE 0)
    ELSE IF stop > L THEN L ELSE stop

---------------------------------------------------------------------------
(* Trials, batches, labels *)

XRow(v) == [tag |-> "x", a |-> v, b |-> 1, src |-> <<>>]

(* the trial whose channel c carries the sample value v + c *)
Trial(C, v) == [c \in 1..C |-> XRow(v + c)]

Trials(C) == {Trial(C, v) : v \in SampleValues}

Batches(C) == UNION {[1..n -> Trials(C)] : n \in 0..MaxTrials}

LabelVectors(n) == [1..n -> Labels]

Result(slf, ret, out, raised) ==
    [self |-> slf, ret |-> ret, out |-> out, raised |-> raised]

NoCall == [op |-> "none", X |-> <<>>, y |-> <<>>, ret |-> "none",
           out |-> <<>>, raised |-> ""]

Called(op, X, y, r) ==
    [op |-> op, X |-> X, y |-> y, ret |-> r.ret, out |-> r.out,
     raised |-> r.raised]

NoSelf == [cls |-> "none"]

None == <<>>
Some(v) == <<v>>

PwIdle == [pc |-> "idle", i |-> 0, n |-> 0]

---------------------------------------------------------------------------
(* External numeric primitives (utils.covariance) *)

(* one covariance estimate: a square matrix of side = rows of M *)
Cov(M, estimator) == [cov |-> estimator, of |-> M, side |-> Len(M)]

covariances(X, estimator) == [i \in 1..Len(X) |-> Cov(X[i], estimator)]

covariances_EP(X, P, estimator) ==
    [i \in 1..Len(X) |-> Cov(P \o X[i], estimator)]

cospectrum(Xi, kwargs) == [fn |-> "cospectrum", X |-> Xi, kwargs |-> kwargs]

Real(S) == [real |-> S]

---------------------------------------------------------------------------
(* _nextpow2 *)

Pow2CondMut(n, i) == n <= i

Pow2Cond(n, i) == n < i

Pow2Body(n) == n * 2

RECURSIVE Pow2Loop(_, _)
Pow2Loop(n, i) == IF Pow2Cond(n, i) THEN Pow2Loop(Pow2Body(n), i) ELSE n

nextpow2(i) == Pow2Loop(1, i)

---------------------------------------------------------------------------
(* class Covariances *)

CovariancesInit(estimator) == [cls |-> "Covariances", estimator |-> estimator]

CovariancesFitMut(slf, X, y) ==
    Result([slf EXCEPT !.estimator = "lwf"], "self", <<>>, "")

CovariancesFit(slf, X, y) == Result(slf, "self", <<>>, "")

CovariancesTransform(slf, X) ==
    Result(slf, "out", covariances(X, slf.estimator), "")

---------------------------------------------------------------------------
(* numpy helpers used by ERPCovariances.fit *)

RECURSIVE SortedSeq(_)
SortedSeq(S) ==
    IF S = {} THEN <<>>
    ELSE LET m == CHOOSE x \in S : \A z \in S : x <= z
         IN <<m>> \o SortedSeq(S \ {m})

(* numpy.unique(y): the distinct values of y in ascending order *)
Unique(y) == SortedSeq({y[i] : i \in 1..Len(y)})

(* X[y == c, :, :]: the trials at the positions where the mask is true *)
RECURSIVE MaskSelect(_, _, _, _)
MaskSelect(X, y, c, i) ==
    IF i > Len(X) THEN <<>>
    ELSE (IF y[i] = c THEN <<X[i]>> ELSE <<>>) \o MaskSelect(X, y, c, i + 1)

RECURSIVE SumRow(_, _, _)
SumRow(sel, ch, k) ==
    IF k > Len(sel) THEN 0 ELSE sel[k][ch].a + SumRow(sel, ch, k + 1)

RECURSIVE GCD(_, _)
GCD(m, n) == IF n = 0 THEN m ELSE GCD(n, m % n)

(* the fraction s / n in lowest terms; n = 0 is NaN *)
MeanRow(s, n) ==
    IF n = 0 THEN [tag |-> "mean", a |-> 0, b |-> 0, src |-> <<>>]
    ELSE LET g == GCD(s, n)
         IN [tag |-> "mean", a |-> s \div g, b |-> n \div g, src |-> <<>>]

(* numpy.mean(sel, axis=0) for sel of shape (len, C, T) *)
Mean(sel, C) == [ch \in 1..C |-> MeanRow(SumRow(sel, ch, 1), Len(sel))]

HasNaN(P) == \E r \in 1..Len(P) : P[r].tag = "mean" /\ P[r].b = 0

(* numpy.dot(U[:, 0:svd].T, P) with U, s, V = numpy.linalg.svd(P):        *)
(* U is C x C, the slice keeps SliceLen(C, svd) columns                    *)
SvdProject(P, svd) ==
    [r \in 1..SliceLen(Len(P), svd.val) |->
        [tag |-> "svd", a |-> r, b |-> 0, src |-> P]]

(* numpy.concatenate(list, axis=0) *)
RECURSIVE Concatenate(_)
Concatenate(l) == IF l = <<>> THEN <<>> ELSE Head(l) \o Concatenate(Tail(l))

PUnset == [state |-> "unset", val |-> <<>>]
PList(l) == [state |-> "list", val |-> l]
PArray(m) == [state |-> "array", val |-> m]

---------------------------------------------------------------------------
(* class ERPCovariances *)

ERPInitMut(classes, estimator, svd) ==
    Result([cls |-> "ERPCovariances", classes |-> classes,
            estimator |-> estimator, svd |-> svd, P |-> PUnset],
           "none", <<>>, "")

ERPInit(classes, estimator, svd) ==
    LET slf == [cls |-> "ERPCovariances", classes |-> classes,
                estimator |-> estimator, svd |-> svd, P |-> PUnset]
    IN IF svd.type # "NoneType" /\ ~IsInstanceInt(svd)
       THEN Result(slf, "none", <<>>, "TypeError")
       ELSE Result(slf, "none", <<>>, "")

ERPActiveClassesMut(slf, y) ==
    IF slf.classes.type # "NoneType"
    THEN SortedSeq({slf.classes.val[j] : j \in 1..Len(slf.classes.val)})
    ELSE Unique(y)

ERPActiveClasses(slf, y) ==
    IF slf.classes.type # "NoneType" THEN slf.classes.val ELSE Unique(y)

(* one prototype: the class mean, reduced when svd is set *)
ERPPrototype(slf, X, y, c, C) ==
    LET P == Mean(MaskSelect(X, y, c, 1), C)
    IN IF slf.svd.type # "NoneType" THEN SvdProject(P, slf.svd) ELSE P

(* the for loop of fit from class j on; slf.P is the list built so far.   *)
(* numpy.linalg.svd of a NaN matrix raises LinAlgError on builds whose     *)
(* LAPACK reports non-convergence (nanRaises) and returns NaN otherwise.   *)
RECURSIVE ERPFitLoop(_, _, _, _, _, _, _)
ERPFitLoop(slf, X, y, classes, j, C, nanRaises) ==
    IF j > Len(classes) THEN Result(slf, "none", <<>>, "")
    ELSE IF /\ slf.svd.type # "NoneType"
            /\ nanRaises
            /\ HasNaN(Mean(MaskSelect(X, y, classes[j], 1), C))
         THEN Result(slf, "none", <<>>, "LinAlgError")
         ELSE ERPFitLoop(
                 [slf EXCEPT !.P = PList(Append(slf.P.val,
                                    ERPPrototype(slf, X, y, classes[j], C)))],
                 X, y, classes, j + 1, C, nanRaises)

ERPFit(slf, X, y, C, nanRaises) ==
    LET loop == ERPFitLoop([slf EXCEPT !.P = PList(<<>>)], X, y,
                           ERPActiveClasses(slf, y), 1, C, nanRaises)
    IN IF loop.raised # "" THEN loop
       ELSE IF loop.self.P.val = <<>>
            THEN Result(loop.self, "none", <<>>, "ValueError")
            ELSE Result([loop.self EXCEPT
                            !.P = PArray(Concatenate(loop.self.P.val))],
                        "self", <<>>, "")

ERPTransformMut(slf, X) ==
    IF slf.P.state # "array"
    THEN Result(slf, "none", <<>>, "AttributeError")
    ELSE Result([slf EXCEPT !.P = PArray(IF X = <<>> THEN slf.P.val
                                         ELSE slf.P.val \o X[1])],
                "out", covariances_EP(X, slf.P.val, slf.estimator), "")

ERPTransform(slf, X) ==
    IF slf.P.state # "array"
    THEN Result(slf, "none", <<>>, "AttributeError")
    ELSE Result(slf, "out",
                covariances_EP(X, slf.P.val, slf.estimator), "")

---------------------------------------------------------------------------
(* Xdawn (spatialfilters): the learned artifact is kept as a term of the   *)
(* fitting data; it exposes filters_ and the class-ordered evokeds_        *)

XdawnInit(nfilter, classes) ==
    [nfilter |-> nfilter, classes |-> classes, fitted |-> FALSE,
     filters_ |-> [n |-> 0, fit |-> <<>>], evokeds_ |-> <<>>]

XdawnClasses(xd, y) ==
    IF xd.classes.type # "NoneType" THEN xd.classes.val ELSE Unique(y)

EvokedRows(c, nfilter, fit) ==
    [f \in 1..nfilter |-> [tag |-> "evk", a |-> c, b |-> f, src |-> fit]]

XdawnFit(xd, X, y) ==
    LET classes == XdawnClasses(xd, y)
        fit == <<X, y>>
    IN [xd EXCEPT
          !.fitted = TRUE,
          !.filters_ = [n |-> xd.nfilter * Len(classes), fit |-> fit],
          !.evokeds_ = Concatenate([j \in 1..Len(classes) |->
                          EvokedRows(classes[j], xd.nfilter, fit)])]

FilteredTrial(xd, Xi) ==
    [k \in 1..xd.filters_.n |->
        [tag |-> "filt", a |-> k, b |-> 0, src |-> <<Xi, xd.filters_.fit>>]]

XdawnTransform(xd, X) == [i \in 1..Len(X) |-> FilteredTrial(xd, X[i])]

---------------------------------------------------------------------------
(* class XdawnCovariances *)

XdawnCovInit(nfilter, applyfilters, classes, estimator) ==
    [cls |-> "XdawnCovariances", Xd |-> XdawnInit(nfilter, classes),
     applyfilters |-> applyfilters, estimator |-> estimator]

XdawnCovFit(slf, X, y) ==
    Result([slf EXCEPT !.Xd = XdawnFit(slf.Xd, X, y)], "self", <<>>, "")

XdawnCovTransformMut(slf, X) ==
    IF ~slf.Xd.fitted
    THEN Result(slf, "none", <<>>, "AttributeError")
    ELSE Result(slf, "out",
                covariances_EP(XdawnTransform(slf.Xd, X), slf.Xd.evokeds_,
                               slf.estimator), "")

XdawnCovTransform(slf, X) ==
    IF ~slf.Xd.fitted
    THEN Result(slf, "none", <<>>, "AttributeError")
    ELSE LET X2 == IF slf.applyfilters THEN XdawnTransform(slf.Xd, X) ELSE X
         IN Result(slf, "out",
                   covariances_EP(X2, slf.Xd.evokeds_, slf.estimator), "")

XdawnCovFitTransform(slf, X, y) ==
    LET f == XdawnCovFit(slf, X, y)
    IN IF f.raised # "" THEN f ELSE XdawnCovTransform(f.self, X)

---------------------------------------------------------------------------
(* class CospCovariances *)

CospInit(window, overlap, fmin, fmax, fs, phase_correction) ==
    [cls |-> "CospCovariances", window |-> nextpow2(window),
     overlap |-> overlap, fmin |-> fmin, fmax |-> fmax, fs |-> fs,
     phase_corr |-> phase_correction]

CospFit(slf, X, y) == Result(slf, "self", <<>>, "")

(* the keyword arguments of the cospectrum call of transform *)
CospKwargs(slf) ==
    [window |-> slf.window, overlap |-> slf.overlap, fmin |-> slf.fmin,
     fmax |-> slf.fmax, fs |-> slf.fs]

(* for i in range(Nt): out.append(cospectrum(X[i], ...).real) *)
RECURSIVE CospLoopMut(_, _, _, _)
CospLoopMut(slf, X, i, out) ==
    IF i > Len(X) THEN out
    ELSE CospLoopMut(slf, X, i + 1,
                     <<Real(cospectrum(X[i], CospKwargs(slf)))>> \o out)

RECURSIVE CospLoop(_, _, _, _)
CospLoop(slf, X, i, out) ==
    IF i > Len(X) THEN out
    ELSE CospLoop(slf, X, i + 1,
                  Append(out, Real(cospectrum(X[i], CospKwargs(slf)))))

CospTransform(slf, X) == Result(slf, "out", CospLoop(slf, X, 1, <<>>), "")

CospFitTransform(slf, X, y) == CospTransform(slf, X)

---------------------------------------------------------------------------
(* Inputs *)

SvdArgs ==
    {PyNone, PyBool(1), PyFloat(2), PyStr(2)}
        \cup {PyInt(r) : r \in MinRank..MaxRank}

ClassArgs ==
    {NoClasses} \cup {ClassList(l) : l \in {<<>>, <<1>>, <<1, 0>>}}

(* the labelled batches given to fit: trials alternate between the two    *)
(* sample values, every label vector of the batch's length                *)
FitBatch(C, n) == [i \in 1..n |-> Trial(C, i % 2)]

FitBatches(C) == {FitBatch(C, n) : n \in 0..MaxTrials}

NFilters == {1, 2}

CospWindows == {100, 128}

(* fmin, fmax, fs: all unset, or a band with its sample rate *)
BandArgs == {<<PyNone, PyNone, PyNone>>, <<PyInt(8), PyInt(30), PyInt(128)>>}

(* overlap = 0.75, in hundredths *)
Overlaps == {PyFloat(75)}

(* the outcomes of numpy.linalg.svd on a NaN prototype matter only when a *)
(* rank is configured and some active class has no trial                  *)
NanOutcomes(slf, y) ==
    IF /\ slf.svd.type # "NoneType"
       /\ \E j \in 1..Len(ERPActiveClasses(slf, y)) :
             \A i \in 1..Len(y) : y[i] # ERPActiveClasses(slf, y)[j]
    THEN BOOLEAN ELSE {FALSE}

---------------------------------------------------------------------------
(* Actions *)

(* a constructor call with arguments args: the instance exists only when  *)
(* __init__ returns                                                        *)
Construct(args, r) ==
    /\ self = NoSelf
    /\ call = NoCall
    /\ self' = IF r.raised = "" THEN r.self ELSE NoSelf
    /\ call' = Called("__init__", args, None, r)
    /\ UNCHANGED <<kind, nch, lastfit, pw>>

Invoke(op, X, y, r) ==
    /\ self' = r.self
    /\ call' = Called(op, X, y, r)
    /\ UNCHANGED <<kind, nch, lastfit, pw>>

CovConstruct ==
    /\ kind = "Covariances"
    /\ \E e \in Estimators :
            Construct(<<>>, Result(CovariancesInit(e), "none", <<>>, ""))

CovFit ==
    /\ self.cls = "Covariances"
    /\ \E X \in FitBatches(nch) :
         \E y \in {None} \cup {Some(l) : l \in LabelVectors(Len(X))} :
            Invoke("fit", X, y, CovariancesFit(self, X, y))

CovTransform ==
    /\ self.cls = "Covariances"
    /\ \E X \in Batches(nch) :
            Invoke("transform", X, None, CovariancesTransform(self, X))

ERPConstruct ==
    /\ kind = "ERPCovariances"
    /\ \E c \in ClassArgs, e \in Estimators, s \in SvdArgs :
            Construct(<<s>>, ERPInit(c, e, s))

ERPFitAct ==
    /\ self.cls = "ERPCovariances"
    /\ \E X \in FitBatches(nch) : \E l \in LabelVectors(Len(X)) :
         \E nanRaises \in NanOutcomes(self, l) :
            LET r == ERPFit(self, X, l, nch, nanRaises)
            IN /\ self' = r.self
               /\ call' = Called("fit", X, Some(l), r)
               /\ lastfit' = IF r.raised = "" THEN Some(<<X, l>>) ELSE None
               /\ UNCHANGED <<kind, nch, pw>>

ERPTransformAct ==
    /\ self.cls = "ERPCovariances"
    /\ \E X \in Batches(nch) :
            Invoke("transform", X, None, ERPTransform(self, X))

XdawnConstruct ==
    /\ kind = "XdawnCovariances"
    /\ \E n \in NFilters, a \in BOOLEAN, e \in Estimators :
         \E c \in {NoClasses, ClassList(<<1, 0>>)} :
            Construct(<<>>, Result(XdawnCovInit(n, a, c, e), "none", <<>>, ""))

XdawnFitAct ==
    /\ self.cls = "XdawnCovariances"
    /\ \E X \in FitBatches(nch) : \E l \in LabelVectors(Len(X)) :
            Invoke("fit", X, Some(l), XdawnCovFit(self, X, l))

XdawnTransformAct ==
    /\ self.cls = "XdawnCovariances"
    /\ \E X \in Batches(nch) :
            Invoke("transform", X, None, XdawnCovTransform(self, X))

XdawnFitTransformAct ==
    /\ self.cls = "XdawnCovariances"
    /\ \E X \in FitBatches(nch) : \E l \in LabelVectors(Len(X)) :
            Invoke("fit_transform", X, Some(l),
                   XdawnCovFitTransform(self, X, l))

CospConstruct ==
    /\ kind = "CospCovariances"
    /\ \E w \in CospWindows, o \in Overlaps, p \in BOOLEAN :
         \E b \in BandArgs :
            Construct(<<>>, Result(CospInit(w, o, b[1], b[2], b[3], p),
                                   "none", <<>>, ""))

CospFitAct ==
    /\ self.cls = "CospCovariances"
    /\ \E X \in FitBatches(nch) :
         \E y \in {None} \cup {Some(l) : l \in LabelVectors(Len(X))} :
            Invoke("fit", X, y, CospFit(self, X, y))

CospTransformAct ==
    /\ self.cls = "CospCovariances"
    /\ \E X \in Batches(nch) :
            Invoke("transform", X, None, CospTransform(self, X))

CospFitTransformAct ==
    /\ self.cls = "CospCovariances"
    /\ \E X \in Batches(nch) :
            Invoke("fit_transform", X, None, CospFitTransform(self, X, None))

Kinds ==
    {"Covariances", "ERPCovariances", "XdawnCovariances", "CospCovariances"}

Init ==
    /\ kind \in Kinds
    /\ nch \in {1, MaxChannels}
    /\ self = NoSelf
    /\ call = NoCall
    /\ lastfit = None
    /\ pw = PwIdle

Next ==
    \/ CovConstruct
    \/ CovFit
    \/ CovTransform
    \/ ERPConstruct
    \/ ERPFitAct
    \/ ERPTransformAct
    \/ XdawnConstruct
    \/ XdawnFitAct
    \/ XdawnTransformAct
    \/ XdawnFitTransformAct
    \/ CospConstruct
    \/ CospFitAct
    \/ CospTransformAct
    \/ CospFitTransformAct

Spec == Init /\ [][Next]_vars

---------------------------------------------------------------------------
(* CospCovariances.__init__ with the loop of _nextpow2 taken step by step *)

MinWindow == 0 - 2

Pow2Call ==
    /\ pw.pc \in {"idle", "done"}
    /\ \E i \in MinWindow..MaxWindow : pw' = [pc |-> "loop", i |-> i, n |-> 1]
    /\ self' = NoSelf
    /\ UNCHANGED <<kind, nch, call, lastfit>>

Pow2Step ==
    /\ pw.pc = "loop"
    /\ Pow2Cond(pw.n, pw.i)
    /\ pw' = [pw EXCEPT !.n = Pow2Body(pw.n)]
    /\ UNCHANGED <<kind, nch, self, call, lastfit>>

Pow2Return ==
    /\ pw.pc = "loop"
    /\ ~Pow2Cond(pw.n, pw.i)
    /\ pw' = [pw EXCEPT !.pc = "done"]
    /\ self' = [cls |-> "CospCovariances", window |-> pw.n,
                overlap |-> PyFloat(75), fmin |-> PyNone, fmax |-> PyNone,
                fs |-> PyNone, phase_corr |-> FALSE]
    /\ UNCHANGED <<kind, nch, call, lastfit>>

InitPow2 ==
    /\ kind = "CospCovariances"
    /\ nch = 1
    /\ self = NoSelf
    /\ call = NoCall
    /\ lastfit = None
    /\ pw = PwIdle

NextPow2 ==
    \/ Pow2Call
    \/ Pow2Step
    \/ Pow2Return

SpecPow2 ==
    /\ InitPow2
    /\ [][NextPow2]_vars
    /\ WF_vars(Pow2Step)
    /\ WF_vars(Pow2Return)

---------------------------------------------------------------------------
(* Properties *)

RECURSIVE IsPow2(_)
IsPow2(n) == n = 1 \/ (n > 1 /\ n % 2 = 0 /\ IsPow2(n \div 2))

IsNextPow2(n, w) ==
    /\ IsPow2(n)
    /\ n >= w
    /\ \A m \in 1..(n - 1) : IsPow2(m) => m < w

(* C1: for every requested window length w, the window stored by           *)
(* CospCovariances.__init__ is the smallest power of two >= w, and the     *)
(* loop of _nextpow2 that computes it terminates.                          *)
C1_NextPow2 ==
    /\ [](pw.pc = "done" =>
            /\ IsNextPow2(pw.n, pw.i)
            /\ self.window = pw.n
            /\ nextpow2(pw.i) = pw.n)
    /\ (pw.pc = "loop" ~> pw.pc = "done")

C1_Witness == pw.pc = "done" /\ pw.i = 100 /\ self.window = 128

(* the classes a successful fit with labels y has used, stated from the   *)
(* labels: the configured list, or the distinct labels in ascending order *)
LabelSet(y) == {y[i] : i \in 1..Len(y)}

NthSmallest(S, j) == CHOOSE c \in S : Cardinality({d \in S : d < c}) = j - 1

ClassesOf(slf, y) ==
    IF slf.classes.type = "list" THEN slf.classes.val
    ELSE [j \in 1..Cardinality(LabelSet(y)) |-> NthSmallest(LabelSet(y), j)]

(* C2: an ERPCovariances fitted on C channels and n classes, each present *)
(* in the labels, returns matrices of side C*n + C without a reduction    *)
(* rank and r*n + C with a reduction rank r (stated here for r >= 0).     *)
C2_Side ==
    (/\ self.cls = "ERPCovariances"
     /\ call.op = "transform"
     /\ call.raised = ""
     /\ lastfit # None)
    => LET y == lastfit[1][2]
           classes == ClassesOf(self, y)
           n == Len(classes)
           r == self.svd.val
       IN (/\ \A j \in 1..n : classes[j] \in LabelSet(y)
           /\ self.svd.type # "NoneType" => r >= 0)
          => \A i \in 1..Len(call.out) :
                call.out[i].side =
                    IF self.svd.type = "NoneType" THEN nch * n + nch
                    ELSE r * n + nch

CospParams == {"window", "overlap", "fmin", "fmax", "fs", "phase_correction"}

(* C3: every cospectrum call of CospCovariances.transform carries all the *)
(* parameters stored at construction: window, overlap, fmin, fmax, fs and *)
(* the phase-correction flag.                                              *)
C3_AllParams ==
    (/\ self.cls = "CospCovariances"
     /\ call.op \in {"transform", "fit_transform"})
    => \A i \in 1..Len(call.out) :
          LET kw == call.out[i].real.kwargs
          IN /\ DOMAIN kw = CospParams
             /\ kw.window = self.window
             /\ kw.overlap = self.overlap
             /\ kw.fmin = self.fmin
             /\ kw.fmax = self.fmax
             /\ kw.fs = self.fs
             /\ kw.phase_correction = self.phase_corr

(* C4 as stated: every ERPCovariances instance has a rank that is unset   *)
(* or a non-negative integer.                                              *)
C4_RankNonNegative ==
    self.cls = "ERPCovariances" =>
        \/ self.svd.type = "NoneType"
        \/ self.svd.type \in {"int", "bool"} /\ self.svd.val >= 0

(* C4: constructing ERPCovariances with a rank that is neither unset nor  *)
(* an int (a bool is an int) raises TypeError at construction and yields  *)
(* no instance; any int is accepted, so every instance has a rank that is *)
(* unset or an int.                                                        *)
C4_RankIsIntOrNone ==
    /\ self.cls = "ERPCovariances" =>
            self.svd.type \in {"NoneType", "int", "bool"}
    /\ (kind = "ERPCovariances" /\ call.op = "__init__") =>
            IF call.X[1].type \in {"NoneType", "int", "bool"}
            THEN call.raised = "" /\ self.cls = "ERPCovariances"
                 /\ self.svd = call.X[1]
            ELSE call.raised = "TypeError" /\ self = NoSelf

C4_Witness ==
    /\ kind = "ERPCovariances"
    /\ call.op = "__init__"
    /\ call.X = <<PyFloat(2)>>
    /\ call.raised = "TypeError"

(* C5: on an ERPCovariances or XdawnCovariances instance transform leaves *)
(* the instance (configuration and fitted state) unchanged, only          *)
(* fit / fit_transform change it, and a transform repeated on the same    *)
(* batch returns the same output.                                          *)
C5_TransformReadsOnly ==
    [][self.cls \in {"ERPCovariances", "XdawnCovariances"} =>
        /\ call'.op = "transform" => self' = self
        /\ self' # self => call'.op \in {"fit", "fit_transform"}
        /\ (call.op = "transform" /\ call'.op = "transform"
                /\ call'.X = call.X)
            => (call'.out = call.out /\ call'.raised = call.raised)]_vars

C5_Witness ==
    /\ self.cls = "ERPCovariances"
    /\ self.P.state = "array"
    /\ call.op = "transform"
    /\ Len(call.out) = 2

TransformOf(slf, X) ==
    CASE slf.cls = "Covariances" -> CovariancesTransform(slf, X)
      [] slf.cls = "ERPCovariances" -> ERPTransform(slf, X)
      [] slf.cls = "XdawnCovariances" -> XdawnCovTransform(slf, X)
      [] slf.cls = "CospCovariances" -> CospTransform(slf, X)

(* C6: for every transformer the output of a batch of N trials has N      *)
(* entries and entry i is what the transformer returns for trial i alone. *)
C6_PerTrial ==
    (call.op \in {"transform", "fit_transform"} /\ call.raised = "")
    => /\ Len(call.out) = Len(call.X)
       /\ \A i \in 1..Len(call.X) :
             call.out[i] = TransformOf(self, <<call.X[i]>>).out[1]

C6_Witness ==
    /\ self.cls = "CospCovariances"
    /\ call.op = "transform"
    /\ Len(call.X) = 2
    /\ call.X[1] # call.X[2]
    /\ call.out[1] # call.out[2]

(* C7: XdawnCovariances.transform builds the augmented covariances        *)
(* against the filter's evoked responses, of the projected batch exactly  *)
(* when applyfilters is set and of the batch itself otherwise;            *)
(* fit_transform(X, y) returns what transform(X) returns after fit(X, y)  *)
(* and leaves the state fit(X, y) leaves.                                  *)
C7_XdawnTransform ==
    [][self.cls = "XdawnCovariances" =>
        /\ (call'.op = "transform" /\ call'.raised = "") =>
              call'.out =
                 [i \in 1..Len(call'.X) |->
                    Cov(self.Xd.evokeds_ \o
                          (IF self.applyfilters
                           THEN FilteredTrial(self.Xd, call'.X[i])
                           ELSE call'.X[i]),
                        self.estimator)]
        /\ call'.op = "fit_transform" =>
              LET f == XdawnCovFit(self, call'.X, call'.y[1])
                  t == XdawnCovTransform(f.self, call'.X)
              IN /\ self' = t.self
                 /\ self' = f.self
                 /\ call'.out = t.out
                 /\ call'.raised = t.raised]_vars

C7_Witness ==
    /\ self.cls = "XdawnCovariances"
    /\ self.applyfilters
    /\ call.op = "fit_transform"
    /\ Len(call.out) = 2

(* C8: fit on Covariances and on CospCovariances returns the instance and *)
(* changes nothing, whatever the batch and the labels.                    *)
C8_FitNoOp ==
    [][(self.cls \in {"Covariances", "CospCovariances"} /\ call'.op = "fit")
        => (self' = self /\ call'.ret = "self" /\ call'.raised = "")]_vars

C8_Witness ==
    /\ self.cls = "CospCovariances"
    /\ call.op = "fit"
    /\ call.y = None
    /\ Len(call.X) = 2

RECURSIVE SumOver(_, _, _)
SumOver(X, I, ch) ==
    IF I = {} THEN 0
    ELSE LET i == CHOOSE k \in I : TRUE
         IN X[i][ch].a + SumOver(X, I \ {i}, ch)

(* row is the mean over the trials of X at the positions I, channel ch *)
IsMeanOf(row, X, I, ch) ==
    /\ row.tag = "mean"
    /\ (row.b = 0) <=> (I = {})
    /\ row.a * Cardinality(I) = row.b * SumOver(X, I, ch)

(* C9 as stated: after a successful ERPCovariances.fit the stored         *)
(* prototype set has one block of C rows per class of the active class    *)
(* set, in that set's order, and block j is the mean of exactly the       *)
(* trials labelled with class j.                                           *)
C9_BlockIsMean ==
    (/\ self.cls = "ERPCovariances"
     /\ call.op = "fit"
     /\ call.raised = "")
    => LET X == call.X
           y == call.y[1]
           classes == ClassesOf(self, y)
           P == self.P.val
           Of(j) == {i \in 1..Len(X) : y[i] = classes[j]}
       IN /\ self.P.state = "array"
          /\ Len(P) = nch * Len(classes)
          /\ \A j \in 1..Len(classes) : \A ch \in 1..nch :
                IsMeanOf(P[(j - 1) * nch + ch], X, Of(j), ch)

(* C9: after a successful ERPCovariances.fit the stored prototype set has *)
(* one block of rows per class of the active class set, in that set's     *)
(* order (the configured list as given, else the distinct labels          *)
(* ascending); block j is the mean of exactly the trials labelled with    *)
(* class j when no rank is configured, and the SVD projection of that     *)
(* mean when a rank is configured.                                         *)
C9_Prototypes ==
    (/\ self.cls = "ERPCovariances"
     /\ call.op = "fit"
     /\ call.raised = "")
    => LET X == call.X
           y == call.y[1]
           classes == ClassesOf(self, y)
           P == self.P.val
           bs == IF self.svd.type = "NoneType" THEN nch
                 ELSE Len(P) \div Len(classes)
           Of(j) == {i \in 1..Len(X) : y[i] = classes[j]}
       IN /\ self.P.state = "array"
          /\ Len(classes) > 0
          /\ Len(P) = bs * Len(classes)
          /\ \A j \in 1..Len(classes) : \A r \in 1..bs :
                LET row == P[(j - 1) * bs + r]
                IN IF self.svd.type = "NoneType"
                   THEN IsMeanOf(row, X, Of(j), r)
                   ELSE /\ row.tag = "svd"
                        /\ row.a = r
                        /\ Len(row.src) = nch
                        /\ \A ch \in 1..nch :
                              IsMeanOf(row.src[ch], X, Of(j), ch)

C9_Witness ==
    /\ self.cls = "ERPCovariances"
    /\ call.op = "fit"
    /\ call.raised = ""
    /\ self.classes = ClassList(<<1, 0>>)
    /\ self.svd = PyInt(1)
    /\ Len(self.P.val) = 2
    /\ call.y = Some(<<0, 1>>)

(* C10: a fit of an already fitted ERPCovariances that raises leaves the  *)
(* stored prototype set as the last successful fit left it.               *)
C10_FailedFitKeepsP ==
    [][(/\ self.cls = "ERPCovariances"
        /\ self.P.state = "array"
        /\ call'.op = "fit"
        /\ call'.raised # "")
       => self'.P = self.P]_vars

====
